---------------------------- MODULE Spec2Model ----------------------------
(***************************************************************************)
(* Model of the optimal-voice-leading pipeline: chord parsing and triad    *)
(* generation (chord_utils.py), voicing enumeration, graph construction    *)
(* and shortest-path selection (graph_utils.py), driven by main()          *)
(* (optimal_voice_leading.py), and the note events of midi_utils.py.       *)
(*                                                                         *)
(* Python strings are modelled as sequences of one-character strings, so   *)
(* that the regular expression of parse_chord, ' '.join, str.replace and   *)
(* str.split are computed character by character.                          *)
(***************************************************************************)
EXTENDS Integers, Sequences, FiniteSets, TLC

VARIABLES
    pc,                \* position of main(): which step runs next
    error,             \* "none", or the Python exception that ended the run
    chords,            \* args.chords.split(","): the progression
    midi_range,        \* <<lo, hi>>
    triad_type,        \* args.triad_type
    triads,            \* dict chord -> list of inversion strings
    graph,             \* nx.DiGraph: [nodes: insertion-ordered Seq, succ: node -> Seq of <<node, weight>>]
    i,                 \* build_voice_leading_graph: index of the outer loop
    layer,             \* build_voice_leading_graph: the current nodes of position i, in loop order
    candidates,        \* build_voice_leading_graph: the nodes of position i + 1, in loop order
    k,                 \* build_voice_leading_graph: current nodes of position i already processed
    start_chords,      \* main(): the layer-0 nodes
    s,                 \* find_optimal_voice_leading: start nodes already processed
    best_cost,         \* find_optimal_voice_leading: Inf or an integer
    best_path,         \* find_optimal_voice_leading: list of nodes
    optimal_path_midis,\* the returned list of <<chord, inversion, midi_notes>>
    notes,             \* find_all_triads_in_range called on its own: the three note names
    valid_midis,       \* find_all_triads_in_range called on its own: the returned list
    outport,           \* midi_utils: the messages sent to the output port, in order
    track,             \* midi_utils: the messages of the track of the MIDI file, in order
    chord_at,          \* midi_utils: entries of the sequence already handled by the outer loop
    note_at            \* midi_utils: notes of the current entry already handled by the inner loop

vars == <<pc, error, chords, midi_range, triad_type, triads, graph, i, layer, candidates, k,
          start_chords, s, best_cost, best_path, optimal_path_midis, notes, valid_midis,
          outport, track, chord_at, note_at>>

\* the variables of midi_utils.py
midiVars == <<outport, track, chord_at, note_at>>

-----------------------------------------------------------------------------
(* Bounds of the model *)

MaxChords == 3

\* chord tokens a progression is drawn from: two different triads, and two
\* spellings (C#, Db) of one triad
ChordTokens == { <<"C">>, <<"G">>, <<"C","#">>, <<"D","b">> }

\* the ranges main() is run with: <<60,61>> fits no triad; <<60,72>> fits close
\* voicings only; <<60,76>> fits a spread voicing of C and of no other chord;
\* <<60,79>> fits every chord in both modes and is wide enough for two
\* neighbouring notes to lie more than an octave apart
MidiRanges == { <<60, 61>>, <<60, 72>>, <<60, 76>>, <<60, 79>> }

\* the note names and ranges find_all_triads_in_range is run with on its own:
\* two spellings of one pitch class, names at both ends of the octave, and
\* ranges below, inside and above the pitches the octave shifts can reach
EnumNotes == { <<"C">>, <<"C","#">>, <<"D","b">>, <<"E">>, <<"G">>, <<"B">> }

EnumRanges == { <<31, 40>>, <<60, 60>>, <<60, 72>>, <<55, 80>>, <<88, 96>> }

\* the position modes main() is run with ('spread' is the default)
TriadTypes == { <<"c","l","o","s","e">>, <<"s","p","r","e","a","d">> }

\* the chord tokens generate_triads is run with on its own: every root the
\* tables know, roots the pattern accepts but no table knows (E#, Cb), tokens
\* the pattern rejects (H, a lower-case c, a leading blank, the empty token),
\* each with recognized and unrecognized quality suffixes
TriadRoots ==
    { <<"C">>, <<"C","#">>, <<"D","b">>, <<"D">>, <<"D","#">>, <<"E","b">>,
      <<"E">>, <<"F">>, <<"F","#">>, <<"G","b">>, <<"G">>, <<"G","#">>,
      <<"A","b">>, <<"A">>, <<"A","#">>, <<"B","b">>, <<"B">>,
      <<"E","#">>, <<"C","b">>, <<"H">>, <<"c">>, <<" ","C">>, <<>> }

TriadSuffixes ==
    { <<>>, <<"M">>, <<"m">>, <<"d","i","m">>, <<"a","u","g">>,
      <<"7">>, <<"m","a","j","7">>, <<"m","7">> }

TriadTokens == { root \o suffix : root \in TriadRoots, suffix \in TriadSuffixes }

\* the progressions Y, X, X, Z main() is run on to see a repeated chord
\* between two others: X is a diminished triad or G, Y and Z are drawn from
\* a diminished, an augmented and two major triads
RepeatEnds == { <<"D","b","d","i","m">>, <<"G","a","u","g">>, <<"C">>, <<"G">> }

RepeatMiddles == { <<"A","b","d","i","m">>, <<"G">> }

RepeatProgressions == { <<y, x, x, z>> : y \in RepeatEnds, x \in RepeatMiddles, z \in RepeatEnds }

\* the position modes generate_triads knows
AllTriadTypes == { <<"a","l","l">>, <<"c","l","o","s","e">>, <<"s","p","r","e","a","d">> }

-----------------------------------------------------------------------------
(* Python built-ins *)

Abs(x) == IF x < 0 THEN -x ELSE x

\* range(lo, hi) as a list
Range(lo, hi) == [n \in 1..(hi - lo) |-> lo + n - 1]

RECURSIVE Sum(_)
Sum(xs) == IF xs = <<>> THEN 0 ELSE Head(xs) + Sum(Tail(xs))

\* s[a:b] (0-based, half-open)
Slice(xs, a, b) == [n \in 1..((IF b > Len(xs) THEN Len(xs) ELSE b) - a) |-> xs[a + n]]

\* list.index(x): position (0-based) of the first x, -1 standing for ValueError
RECURSIVE IndexFrom(_, _, _)
IndexFrom(xs, x, n) ==
    IF n > Len(xs) THEN -1
    ELSE IF xs[n] = x THEN n - 1
    ELSE IndexFrom(xs, x, n + 1)

Index(xs, x) == IndexFrom(xs, x, 1)

\* sep.join(parts)
RECURSIVE Join(_, _)
Join(sep, parts) ==
    IF parts = <<>> THEN <<>>
    ELSE IF Len(parts) = 1 THEN parts[1]
    ELSE parts[1] \o sep \o Join(sep, Tail(parts))

\* str.split(): the maximal runs of non-blank characters
RECURSIVE SplitFrom(_, _, _)
SplitFrom(str, n, word) ==
    IF n > Len(str) THEN (IF word = <<>> THEN <<>> ELSE <<word>>)
    ELSE IF str[n] = " "
         THEN (IF word = <<>> THEN <<>> ELSE <<word>>) \o SplitFrom(str, n + 1, <<>>)
         ELSE SplitFrom(str, n + 1, Append(word, str[n]))

Split(str) == SplitFrom(str, 1, <<>>)

\* str.replace(old, new) for a non-empty old: left to right, non-overlapping
RECURSIVE ReplaceFrom(_, _, _, _)
ReplaceFrom(str, old, new, n) ==
    IF n > Len(str) THEN <<>>
    ELSE IF n + Len(old) - 1 <= Len(str) /\ SubSeq(str, n, n + Len(old) - 1) = old
         THEN new \o ReplaceFrom(str, old, new, n + Len(old))
         ELSE <<str[n]>> \o ReplaceFrom(str, old, new, n + 1)

Replace(str, old, new) == ReplaceFrom(str, old, new, 1)

\* itertools.permutations of a 3-element list, in itertools order
Permutations3(p) ==
    << <<p[1], p[2], p[3]>>, <<p[1], p[3], p[2]>>, <<p[2], p[1], p[3]>>,
       <<p[2], p[3], p[1]>>, <<p[3], p[1], p[2]>>, <<p[3], p[2], p[1]>> >>

\* sorted(list of integers) for a 3-element list
Sorted3(m) ==
    LET lo == IF m[1] <= m[2] /\ m[1] <= m[3] THEN m[1] ELSE IF m[2] <= m[3] THEN m[2] ELSE m[3]
        hi == IF m[1] >= m[2] /\ m[1] >= m[3] THEN m[1] ELSE IF m[2] >= m[3] THEN m[2] ELSE m[3]
    IN  <<lo, m[1] + m[2] + m[3] - lo - hi, hi>>

-----------------------------------------------------------------------------
(* constants.py *)

NoteNames ==
    { <<"C">>, <<"C","#">>, <<"D","b">>, <<"D">>, <<"D","#">>, <<"E","b">>,
      <<"E">>, <<"F">>, <<"F","#">>, <<"G","b">>, <<"G">>, <<"G","#">>,
      <<"A","b">>, <<"A">>, <<"A","#">>, <<"B","b">>, <<"B">> }

\* NOTE_TO_MIDI_BASE[note]; a name outside NoteNames is a KeyError
NOTE_TO_MIDI_BASE(note) ==
    CASE note = <<"C">> -> 60
      [] note = <<"C","#">> -> 61
      [] note = <<"D","b">> -> 61
      [] note = <<"D">> -> 62
      [] note = <<"D","#">> -> 63
      [] note = <<"E","b">> -> 63
      [] note = <<"E">> -> 64
      [] note = <<"F">> -> 65
      [] note = <<"F","#">> -> 66
      [] note = <<"G","b">> -> 66
      [] note = <<"G">> -> 67
      [] note = <<"G","#">> -> 68
      [] note = <<"A","b">> -> 68
      [] note = <<"A">> -> 69
      [] note = <<"A","#">> -> 70
      [] note = <<"B","b">> -> 70
      [] note = <<"B">> -> 71

\* The three tables chord_utils.py imports from constants.py
CHROMATIC_SCALE ==
    << <<"C">>, <<"C","#">>, <<"D">>, <<"D","#">>, <<"E">>, <<"F">>,
       <<"F","#">>, <<"G">>, <<"G","#">>, <<"A">>, <<"A","#">>, <<"B">> >>

ENHARMONIC_MAP_KEYS == { <<"D","b">>, <<"E","b">>, <<"G","b">>, <<"A","b">>, <<"B","b">> }

ENHARMONIC_MAP(root) ==
    CASE root = <<"D","b">> -> <<"C","#">>
      [] root = <<"E","b">> -> <<"D","#">>
      [] root = <<"G","b">> -> <<"F","#">>
      [] root = <<"A","b">> -> <<"G","#">>
      [] root = <<"B","b">> -> <<"A","#">>

SCALE_INTERVALS_KEYS == { <<"M">>, <<"m">>, <<"d","i","m">>, <<"a","u","g">> }

SCALE_INTERVALS(chord_type) ==
    CASE chord_type = <<"M">> -> <<2, 2, 1, 2, 2, 2, 1>>
      [] chord_type = <<"m">> -> <<2, 1, 2, 2, 1, 2, 2>>
      [] chord_type = <<"d","i","m">> -> <<2, 1, 2, 1, 2, 1, 2, 1>>
      [] chord_type = <<"a","u","g">> -> <<2, 2, 2, 2, 2, 2>>

-----------------------------------------------------------------------------
(* chord_utils.py *)

\* re.match(r"([A-G][#b]?)(.*)", chord) is not None
ChordMatches(chord) ==
    Len(chord) >= 1 /\ chord[1] \in {"A", "B", "C", "D", "E", "F", "G"}

\* a slip of line 59: a chord without a suffix is taken as minor
parse_chordMinorDefault(chord) ==
    LET rootLen == IF Len(chord) >= 2 /\ chord[2] \in {"#", "b"} THEN 2 ELSE 1
        original_root_note == SubSeq(chord, 1, rootLen)
        rest == SubSeq(chord, rootLen + 1, Len(chord))
        standardized_root_note ==
            IF original_root_note \in ENHARMONIC_MAP_KEYS
            THEN ENHARMONIC_MAP(original_root_note)
            ELSE original_root_note
        chord_type == IF rest # <<>> THEN rest ELSE <<"m">>
    IN  <<original_root_note, standardized_root_note, chord_type>>

\* parse_chord(chord), for a chord the pattern matches:
\* <<original_root_note, standardized_root_note, chord_type>>
parse_chord(chord) ==
    LET rootLen == IF Len(chord) >= 2 /\ chord[2] \in {"#", "b"} THEN 2 ELSE 1
        original_root_note == SubSeq(chord, 1, rootLen)
        rest == SubSeq(chord, rootLen + 1, Len(chord))
        standardized_root_note ==
            IF original_root_note \in ENHARMONIC_MAP_KEYS
            THEN ENHARMONIC_MAP(original_root_note)
            ELSE original_root_note
        chord_type == IF rest # <<>> THEN rest ELSE <<"M">>
    IN  <<original_root_note, standardized_root_note, chord_type>>

\* The exception generate_triads(chord, triad_type) ends with, or "none"
GenerateTriadsError(chord, ttype) ==
    IF ~ChordMatches(chord) THEN "AttributeError"
    ELSE IF Index(CHROMATIC_SCALE, parse_chord(chord)[2]) = -1 THEN "ValueError"
    ELSE IF ttype \notin { <<"a","l","l">>, <<"c","l","o","s","e">>, <<"s","p","r","e","a","d">> }
         THEN "UnboundLocalError"
    ELSE "none"

\* a slip of lines 38-41: the indices of 'close' and 'spread' are exchanged
generate_triadsSwappedModes(chord, ttype) ==
    LET parsed == parse_chord(chord)
        original_root == parsed[1]
        standardized_root == parsed[2]
        chord_type == parsed[3]
        root_index == Index(CHROMATIC_SCALE, standardized_root)
        intervals == IF chord_type \in SCALE_INTERVALS_KEYS
                     THEN SCALE_INTERVALS(chord_type)
                     ELSE SCALE_INTERVALS(<<"M">>)
        scaleLen == Len(CHROMATIC_SCALE)
        triadNotes ==
            << CHROMATIC_SCALE[root_index + 1],
               CHROMATIC_SCALE[((root_index + Sum(Slice(intervals, 0, 2))) % scaleLen) + 1],
               CHROMATIC_SCALE[((root_index + Sum(Slice(intervals, 0, 4))) % scaleLen) + 1] >>
        perms == Permutations3(triadNotes)
        triad_permutations == [n \in 1..6 |-> Join(<<" ">>, perms[n])]
        chosen ==
            IF ttype = <<"a","l","l">> THEN triad_permutations
            ELSE IF ttype = <<"c","l","o","s","e">>
                 THEN <<triad_permutations[2], triad_permutations[3], triad_permutations[6]>>
                 ELSE <<triad_permutations[1], triad_permutations[4], triad_permutations[5]>>
    IN  [n \in 1..Len(chosen) |-> Replace(chosen[n], standardized_root, original_root)]

\* generate_triads(chord, triad_type) when it raises nothing: a list of strings
generate_triads(chord, ttype) ==
    LET parsed == parse_chord(chord)
        original_root == parsed[1]
        standardized_root == parsed[2]
        chord_type == parsed[3]
        root_index == Index(CHROMATIC_SCALE, standardized_root)
        intervals == IF chord_type \in SCALE_INTERVALS_KEYS
                     THEN SCALE_INTERVALS(chord_type)
                     ELSE SCALE_INTERVALS(<<"M">>)
        scaleLen == Len(CHROMATIC_SCALE)
        triadNotes ==
            << CHROMATIC_SCALE[root_index + 1],
               CHROMATIC_SCALE[((root_index + Sum(Slice(intervals, 0, 2))) % scaleLen) + 1],
               CHROMATIC_SCALE[((root_index + Sum(Slice(intervals, 0, 4))) % scaleLen) + 1] >>
        perms == Permutations3(triadNotes)
        triad_permutations == [n \in 1..6 |-> Join(<<" ">>, perms[n])]
        chosen ==
            IF ttype = <<"a","l","l">> THEN triad_permutations
            ELSE IF ttype = <<"c","l","o","s","e">>
                 THEN <<triad_permutations[1], triad_permutations[4], triad_permutations[5]>>
                 ELSE <<triad_permutations[2], triad_permutations[3], triad_permutations[6]>>
    IN  [n \in 1..Len(chosen) |-> Replace(chosen[n], standardized_root, original_root)]

-----------------------------------------------------------------------------
(* graph_utils.py: find_all_triads_in_range *)

\* range(-2, 3)
OctaveShifts == Range(-2, 3)

\* itertools.product(range(-2, 3), repeat=3), in itertools order (last index fastest)
octave_combinations ==
    LET n == Len(OctaveShifts)
    IN  [c \in 1..(n * n * n) |->
            << OctaveShifts[((c - 1) \div (n * n)) + 1],
               OctaveShifts[(((c - 1) \div n) % n) + 1],
               OctaveShifts[((c - 1) % n) + 1] >>]

\* a slip of line 33: the distance between neighbours is not tested
ValidMidiAnyGap(midi_notes, rng) ==
    /\ \A n \in 1..3 : rng[1] <= midi_notes[n] /\ midi_notes[n] <= rng[2]
    /\ midi_notes = Sorted3(midi_notes)

\* a slip of line 32: the candidate must ascend strictly
ValidMidiStrict(midi_notes, rng) ==
    /\ \A n \in 1..3 : rng[1] <= midi_notes[n] /\ midi_notes[n] <= rng[2]
    /\ midi_notes[1] < midi_notes[2] /\ midi_notes[2] < midi_notes[3]
    /\ \A n \in 1..2 : Abs(midi_notes[n + 1] - midi_notes[n]) <= 12

\* the test of lines 31 and 33 on one candidate
ValidMidi(midi_notes, rng) ==
    /\ \A n \in 1..3 : rng[1] <= midi_notes[n] /\ midi_notes[n] <= rng[2]
    /\ midi_notes = Sorted3(midi_notes)
    /\ \A n \in 1..2 : Abs(midi_notes[n + 1] - midi_notes[n]) <= 12

\* find_all_triads_in_range(notes, midi_range) for three names of NoteNames
find_all_triads_in_range(nts, rng) ==
    LET base_midis == [n \in 1..3 |-> NOTE_TO_MIDI_BASE(nts[n])]
        shifted == [c \in 1..Len(octave_combinations) |->
                       [n \in 1..3 |-> base_midis[n] + octave_combinations[c][n] * 12]]
    IN  SelectSeq(shifted, LAMBDA m : ValidMidi(m, rng))

-----------------------------------------------------------------------------
(* networkx.DiGraph, as graph_utils.py uses it *)

\* nx.DiGraph()
EmptyGraph == [nodes |-> <<>>, succ |-> <<>>]

\* dict[key] = val (a new key is added, an old one overwritten)
Put(f, key, val) == [x \in (DOMAIN f) \cup {key} |-> IF x = key THEN val ELSE f[x]]

InGraph(G, node) == \E n \in 1..Len(G.nodes) : G.nodes[n] = node

\* graph.add_node(node)
add_node(G, node) ==
    IF InGraph(G, node) THEN G
    ELSE [nodes |-> Append(G.nodes, node), succ |-> Put(G.succ, node, <<>>)]

\* graph.add_edge(u, v, weight=w): both ends become nodes; an edge that is
\* already there keeps its place and takes the new weight
add_edge(G, u, v, w) ==
    LET G2 == add_node(add_node(G, u), v)
        out == G2.succ[u]
        at == IndexFrom([n \in 1..Len(out) |-> out[n][1]], v, 1)
    IN  [G2 EXCEPT !.succ[u] = IF at = -1 THEN Append(out, <<v, w>>)
                               ELSE [out EXCEPT ![at + 1] = <<v, w>>]]

\* the edges of G as a set of <<u, v, w>>
Edges(G) ==
    UNION { { <<u, G.succ[u][n][1], G.succ[u][n][2]>> : n \in 1..Len(G.succ[u]) } :
            u \in DOMAIN G.succ }

-----------------------------------------------------------------------------
(* graph_utils.py: build_voice_leading_graph *)

RECURSIVE Flatten(_)
Flatten(lists) == IF lists = <<>> THEN <<>> ELSE Head(lists) \o Flatten(Tail(lists))

\* a slip of line 73: the differences are summed with their signs
CostSigned(current_midi_notes, next_midi_notes) ==
    Sum([n \in 1..3 |-> next_midi_notes[n] - current_midi_notes[n]])

\* line 73: the cost of moving from current_midi_notes to next_midi_notes
Cost(current_midi_notes, next_midi_notes) ==
    Sum([n \in 1..3 |-> Abs(next_midi_notes[n] - current_midi_notes[n])])

\* a slip of lines 62 and 70: the position is left out of a node's identity
LayerNodesUnpositioned(chs, pos, rng, trds) ==
    LET chord == chs[pos + 1]
        inversions == trds[chord]
    IN  Flatten([a \in 1..Len(inversions) |->
            LET found == find_all_triads_in_range(Split(inversions[a]), rng)
            IN  [v \in 1..Len(found) |-> <<0, chord, inversions[a], found[v]>>]])

\* lines 57-62 (and 67-72): the nodes of position pos (0-based), in loop order
LayerNodes(chs, pos, rng, trds) ==
    LET chord == chs[pos + 1]
        inversions == trds[chord]
    IN  Flatten([a \in 1..Len(inversions) |->
            LET found == find_all_triads_in_range(Split(inversions[a]), rng)
            IN  [v \in 1..Len(found) |-> <<pos, chord, inversions[a], found[v]>>]])

\* lines 65-74: next_nodes of one current node, from the nodes of the next position
NextNodes(nextLayer, current_node) ==
    [n \in 1..Len(nextLayer) |-> <<nextLayer[n], Cost(current_node[4], nextLayer[n][4])>>]

\* next_nodes.sort(key=lambda x: x[1]): stable, ascending by cost
RECURSIVE InsertByCost(_, _)
InsertByCost(sorted, x) ==
    IF sorted = <<>> THEN <<x>>
    ELSE IF sorted[Len(sorted)][2] <= x[2] THEN Append(sorted, x)
    ELSE Append(InsertByCost(SubSeq(sorted, 1, Len(sorted) - 1), x), sorted[Len(sorted)])

\* a slip of line 78: the candidates are left in the order they were generated
SortByCostUnsorted(xs) == xs

RECURSIVE SortByCost(_)
SortByCost(xs) ==
    IF xs = <<>> THEN <<>>
    ELSE InsertByCost(SortByCost(SubSeq(xs, 1, Len(xs) - 1)), xs[Len(xs)])

\* a slip of line 77: two spellings of one chord count as the same chord
SameChordBySound(current_chord, next_chord) ==
    /\ parse_chord(current_chord)[2] = parse_chord(next_chord)[2]
    /\ parse_chord(current_chord)[3] = parse_chord(next_chord)[3]

\* line 77: are the two chords the same chord
SameChord(current_chord, next_chord) == current_chord = next_chord

\* a slip of line 80: zero-cost candidates are kept
FilteredNodesWithZero(next_nodes) == SelectSeq(next_nodes, LAMBDA x : x[2] >= 0)

\* line 80: the candidates kept for a repeated chord
FilteredNodes(next_nodes) == SelectSeq(next_nodes, LAMBDA x : x[2] > 0)

RECURSIVE AddEdges(_, _, _)
AddEdges(G, current_node, next_nodes) ==
    IF next_nodes = <<>> THEN G
    ELSE AddEdges(add_edge(G, current_node, Head(next_nodes)[1], Head(next_nodes)[2]),
                  current_node, Tail(next_nodes))

\* lines 76-90: the edges one current node gets; the graph, or "IndexError"
\* when next_nodes[0] is taken from an empty list
EdgeError(current_node, next_chord, next_nodes) ==
    IF SameChord(current_node[2], next_chord)
       /\ FilteredNodes(SortByCost(next_nodes)) = <<>>
       /\ next_nodes = <<>>
    THEN "IndexError" ELSE "none"

\* a slip of lines 85-87: no edge is added when no candidate costs more than 0
InsertEdgesNoFallback(G, current_node, next_chord, next_nodes) ==
    IF SameChord(current_node[2], next_chord)
    THEN LET sorted == SortByCost(next_nodes)
             filtered_nodes == FilteredNodes(sorted)
         IN  IF filtered_nodes # <<>>
             THEN add_edge(G, current_node, filtered_nodes[1][1], filtered_nodes[1][2])
             ELSE G
    ELSE AddEdges(G, current_node, next_nodes)

\* a slip of lines 76-90: a repeated chord is connected like any other
InsertEdgesToAll(G, current_node, next_chord, next_nodes) ==
    AddEdges(G, current_node, next_nodes)

InsertEdges(G, current_node, next_chord, next_nodes) ==
    IF SameChord(current_node[2], next_chord)
    THEN LET sorted == SortByCost(next_nodes)
             filtered_nodes == FilteredNodes(sorted)
         IN  IF filtered_nodes # <<>>
             THEN add_edge(G, current_node, filtered_nodes[1][1], filtered_nodes[1][2])
             ELSE add_edge(G, current_node, sorted[1][1], sorted[1][2])
    ELSE AddEdges(G, current_node, next_nodes)

-----------------------------------------------------------------------------
(* networkx.single_source_dijkstra, as find_optimal_voice_leading calls it *)

\* one pass of "for u, e in G_succ[v].items()" from the n-th successor on
RECURSIVE Relax(_, _, _, _)
Relax(G, st, v, n) ==
    IF n > Len(G.succ[v]) THEN st
    ELSE LET u == G.succ[v][n][1]
             vu_dist == st.dist[v] + G.succ[v][n][2]
         IN  IF u \in DOMAIN st.dist
             THEN Relax(G, [st EXCEPT !.contradictory = @ \/ vu_dist < st.dist[u]], v, n + 1)
             ELSE IF u \notin DOMAIN st.seen \/ vu_dist < st.seen[u]
                  THEN Relax(G, [st EXCEPT !.seen = Put(@, u, vu_dist),
                                           !.fringe = @ \cup {<<vu_dist, st.c, u>>},
                                           !.c = @ + 1,
                                           !.paths = Put(@, u, Append(st.paths[v], u))],
                             v, n + 1)
                  ELSE Relax(G, st, v, n + 1)

\* "while fringe": pop the least (distance, counter) entry and settle its node
RECURSIVE DijkstraLoop(_, _)
DijkstraLoop(G, st) ==
    IF st.fringe = {} THEN st
    ELSE LET top == CHOOSE e \in st.fringe :
                        \A f \in st.fringe : e[1] < f[1] \/ (e[1] = f[1] /\ e[2] <= f[2])
             v == top[3]
             popped == [st EXCEPT !.fringe = @ \ {top}]
         IN  IF v \in DOMAIN st.dist
             THEN DijkstraLoop(G, popped)
             ELSE DijkstraLoop(G, Relax(G, [popped EXCEPT !.dist = Put(@, v, top[1])], v, 1))

\* nx.single_source_dijkstra(graph, source): [dist |-> lengths, paths |-> paths]
single_source_dijkstra(G, source) ==
    DijkstraLoop(G, [dist |-> <<>>,
                     seen |-> Put(<<>>, source, 0),
                     fringe |-> {<<0, 0, source>>},
                     c |-> 1,
                     paths |-> Put(<<>>, source, <<source>>),
                     contradictory |-> FALSE])

-----------------------------------------------------------------------------
(* graph_utils.py: find_optimal_voice_leading *)

\* best_cost is float('inf') or a number
Infinity == [finite |-> FALSE, value |-> 0]

Finite(x) == [finite |-> TRUE, value |-> x]

\* a slip of line 117: every reachable target replaces the best so far
ImprovesAlways(length, best) == TRUE

\* a slip of line 117: a candidate of equal cost replaces the best so far
ImprovesOrTies(length, best) == ~best.finite \/ length <= best.value

\* line 117: lengths[target] < best_cost
Improves(length, best) == ~best.finite \/ length < best.value

\* line 113: the nodes of the last position that carry the last chord's name
target_chords(G, chs) ==
    SelectSeq(G.nodes, LAMBDA node : node[1] = Len(chs) - 1 /\ node[2] = chs[Len(chs)])

\* lines 115-119: the loop over the targets of one start node, from the n-th on
RECURSIVE ScanTargets(_, _, _, _)
ScanTargets(targets, n, run, best) ==
    IF n > Len(targets) THEN best
    ELSE LET target == targets[n]
         IN  IF target \in DOMAIN run.paths /\ Improves(run.dist[target], best.cost)
             THEN ScanTargets(targets, n + 1, run,
                              [cost |-> Finite(run.dist[target]), path |-> run.paths[target]])
             ELSE ScanTargets(targets, n + 1, run, best)

\* a slip of lines 107-119: the best is the best of one start's run only
AfterStartAlone(G, chs, start_chord, best) ==
    LET alone == ScanTargets(target_chords(G, chs), 1, single_source_dijkstra(G, start_chord),
                             [cost |-> Infinity, path |-> <<>>])
    IN  IF alone.path # <<>> THEN alone ELSE best

\* lines 112-119: the body of "for start_chord in start_chords"
AfterStart(G, chs, start_chord, best) ==
    ScanTargets(target_chords(G, chs), 1, single_source_dijkstra(G, start_chord), best)

\* lines 121-126: the returned list
best_path_midis(path) == [n \in 1..Len(path) |-> <<path[n][2], path[n][3], path[n][4]>>]

-----------------------------------------------------------------------------
(* optimal_voice_leading.py: main(), step by step *)

\* the progressions main() is run on: args.chords.split(",")
Progressions == UNION { [1..n -> ChordTokens] : n \in 1..MaxChords }

ChordSet(chs) == { chs[n] : n \in 1..Len(chs) }

Init ==
    /\ pc = "triads"
    /\ error = "none"
    /\ chords \in Progressions
    /\ midi_range \in MidiRanges
    /\ triad_type \in TriadTypes
    /\ triads = <<>>
    /\ graph = EmptyGraph
    /\ i = 0
    /\ layer = <<>>
    /\ candidates = <<>>
    /\ k = 0
    /\ start_chords = <<>>
    /\ s = 0
    /\ best_cost = Infinity
    /\ best_path = <<>>
    /\ optimal_path_midis = <<>>
    /\ notes = <<>>
    /\ valid_midis = <<>>
    /\ outport = <<>>
    /\ track = <<>>
    /\ chord_at = 0
    /\ note_at = 0

\* line 59: triads = {chord: generate_triads(chord, ...) for chord in set(chords)};
\* every name generate_triads returns is a key of NOTE_TO_MIDI_BASE, so the
\* look-ups of find_all_triads_in_range succeed
GenerateTriads ==
    /\ pc = "triads"
    /\ IF \E c \in ChordSet(chords) : GenerateTriadsError(c, triad_type) # "none"
       THEN /\ \E c \in ChordSet(chords) :
                  /\ GenerateTriadsError(c, triad_type) # "none"
                  /\ error' = GenerateTriadsError(c, triad_type)
            /\ pc' = "crashed"
            /\ UNCHANGED triads
       ELSE /\ triads' = [c \in ChordSet(chords) |-> generate_triads(c, triad_type)]
            /\ pc' = "for_i"
            /\ UNCHANGED error
    /\ UNCHANGED <<chords, midi_range, triad_type, graph, i, layer, candidates, k, start_chords, s,
                   best_cost, best_path, optimal_path_midis, notes, valid_midis>>
    /\ UNCHANGED midiVars

\* build_voice_leading_graph, lines 53-59 and 67-69: position i is entered.
\* The lists the loops of this position run over are computed here: the
\* current nodes (lines 57-62) and the candidate next nodes (lines 67-72), which
\* the code computes anew, with the same result, for every current node
EnterLayer ==
    /\ pc = "for_i"
    /\ i < Len(chords) - 1
    /\ layer' = LayerNodes(chords, i, midi_range, triads)
    /\ candidates' = LayerNodes(chords, i + 1, midi_range, triads)
    /\ k' = 0
    /\ pc' = "for_node"
    /\ UNCHANGED <<error, chords, midi_range, triad_type, triads, graph, i, start_chords, s,
                   best_cost, best_path, optimal_path_midis, notes, valid_midis>>
    /\ UNCHANGED midiVars

\* build_voice_leading_graph, lines 61-90: one current node of position i
BuildNode ==
    /\ pc = "for_node"
    /\ k < Len(layer)
    /\ LET current_node == layer[k + 1]
           next_chord == chords[i + 2]
           next_nodes == NextNodes(candidates, current_node)
       IN  IF EdgeError(current_node, next_chord, next_nodes) # "none"
           THEN /\ error' = EdgeError(current_node, next_chord, next_nodes)
                /\ pc' = "crashed"
                /\ graph' = add_node(graph, current_node)
                /\ UNCHANGED k
           ELSE /\ graph' = InsertEdges(add_node(graph, current_node), current_node,
                                        next_chord, next_nodes)
                /\ k' = k + 1
                /\ UNCHANGED <<pc, error>>
    /\ UNCHANGED <<chords, midi_range, triad_type, triads, i, layer, candidates, start_chords, s,
                   best_cost, best_path, optimal_path_midis, notes, valid_midis>>
    /\ UNCHANGED midiVars

\* build_voice_leading_graph, line 53: position i is finished, on to the next
NextLayer ==
    /\ pc = "for_node"
    /\ k = Len(layer)
    /\ i' = i + 1
    /\ pc' = "for_i"
    /\ UNCHANGED <<error, chords, midi_range, triad_type, triads, graph, k, layer, candidates,
                   start_chords, s, best_cost, best_path, optimal_path_midis, notes, valid_midis>>
    /\ UNCHANGED midiVars

\* build_voice_leading_graph, line 92 and main() line 68: the graph is returned
\* and the start nodes are selected from it
SelectStartChords ==
    /\ pc = "for_i"
    /\ i >= Len(chords) - 1
    /\ start_chords' = SelectSeq(graph.nodes, LAMBDA node : node[1] = 0 /\ node[2] = chords[1])
    /\ s' = 0
    /\ best_cost' = Infinity
    /\ best_path' = <<>>
    /\ pc' = "optimize"
    /\ UNCHANGED <<error, chords, midi_range, triad_type, triads, graph, i, k, layer, candidates,
                   optimal_path_midis, notes, valid_midis>>
    /\ UNCHANGED midiVars

\* find_optimal_voice_leading, lines 111-119: one start node
OptimizeStart ==
    /\ pc = "optimize"
    /\ s < Len(start_chords)
    /\ LET best == AfterStart(graph, chords, start_chords[s + 1],
                              [cost |-> best_cost, path |-> best_path])
       IN  /\ best_cost' = best.cost
           /\ best_path' = best.path
    /\ s' = s + 1
    /\ UNCHANGED <<pc, error, chords, midi_range, triad_type, triads, graph, i, layer, candidates,
                   k, start_chords, optimal_path_midis, notes, valid_midis>>
    /\ UNCHANGED midiVars

\* find_optimal_voice_leading, lines 121-126, and main() line 69
OptimizeReturn ==
    /\ pc = "optimize"
    /\ s = Len(start_chords)
    /\ optimal_path_midis' = IF best_path # <<>> THEN best_path_midis(best_path) ELSE <<>>
    /\ pc' = "done"
    /\ UNCHANGED <<error, chords, midi_range, triad_type, triads, graph, i, layer, candidates,
                   k, start_chords, s, best_cost, best_path, notes, valid_midis>>
    /\ UNCHANGED midiVars

Next ==
    \/ GenerateTriads
    \/ EnterLayer
    \/ BuildNode
    \/ NextLayer
    \/ SelectStartChords
    \/ OptimizeStart
    \/ OptimizeReturn

Spec == Init /\ [][Next]_vars

-----------------------------------------------------------------------------
(* find_all_triads_in_range called on its own, on any three note names *)

InitEnum ==
    /\ pc = "enum"
    /\ error = "none"
    /\ chords = <<>>
    /\ midi_range \in EnumRanges
    /\ triad_type = <<>>
    /\ triads = <<>>
    /\ graph = EmptyGraph
    /\ i = 0
    /\ layer = <<>>
    /\ candidates = <<>>
    /\ k = 0
    /\ start_chords = <<>>
    /\ s = 0
    /\ best_cost = Infinity
    /\ best_path = <<>>
    /\ optimal_path_midis = <<>>
    /\ notes \in [1..3 -> EnumNotes]
    /\ valid_midis = <<>>
    /\ outport = <<>>
    /\ track = <<>>
    /\ chord_at = 0
    /\ note_at = 0

\* lines 24-36: the call
EnumerateTriads ==
    /\ pc = "enum"
    /\ valid_midis' = find_all_triads_in_range(notes, midi_range)
    /\ pc' = "enum_done"
    /\ UNCHANGED <<error, chords, midi_range, triad_type, triads, graph, i, layer, candidates, k,
                   start_chords, s, best_cost, best_path, optimal_path_midis, notes>>
    /\ UNCHANGED midiVars

NextEnum == EnumerateTriads

SpecEnum == InitEnum /\ [][NextEnum]_vars

-----------------------------------------------------------------------------
(* main() run on a progression that repeats its second chord *)

InitRepeat ==
    /\ pc = "triads"
    /\ error = "none"
    /\ chords \in RepeatProgressions
    /\ midi_range = <<56, 74>>
    /\ triad_type = <<"c","l","o","s","e">>
    /\ triads = <<>>
    /\ graph = EmptyGraph
    /\ i = 0
    /\ layer = <<>>
    /\ candidates = <<>>
    /\ k = 0
    /\ start_chords = <<>>
    /\ s = 0
    /\ best_cost = Infinity
    /\ best_path = <<>>
    /\ optimal_path_midis = <<>>
    /\ notes = <<>>
    /\ valid_midis = <<>>
    /\ outport = <<>>
    /\ track = <<>>
    /\ chord_at = 0
    /\ note_at = 0

SpecRepeat == InitRepeat /\ [][Next]_vars

-----------------------------------------------------------------------------
(* generate_triads called by main() on one chord token of any spelling *)

InitTriads ==
    /\ pc = "triads"
    /\ error = "none"
    /\ chords \in { <<token>> : token \in TriadTokens }
    /\ midi_range = <<40, 90>>
    /\ triad_type \in AllTriadTypes
    /\ triads = <<>>
    /\ graph = EmptyGraph
    /\ i = 0
    /\ layer = <<>>
    /\ candidates = <<>>
    /\ k = 0
    /\ start_chords = <<>>
    /\ s = 0
    /\ best_cost = Infinity
    /\ best_path = <<>>
    /\ optimal_path_midis = <<>>
    /\ notes = <<>>
    /\ valid_midis = <<>>
    /\ outport = <<>>
    /\ track = <<>>
    /\ chord_at = 0
    /\ note_at = 0

\* main() line 59 on the one token
NextTriads == GenerateTriads

SpecTriads == InitTriads /\ [][NextTriads]_vars

-----------------------------------------------------------------------------
(* midi_utils.py: play_midi_sequence and create_midi_file, run by main() on a
   list of <<chord, inversion, midi_notes>> *)

\* the entries a voicing sequence is drawn from: two voicings that share a
\* pitch, and the first voicing under another chord name
MidiEntries ==
    { << <<"C">>, <<"C"," ","E"," ","G">>, <<60, 64, 67>> >>,
      << <<"G">>, <<"B"," ","D"," ","G">>, <<59, 62, 67>> >>,
      << <<"C","m">>, <<"C"," ","D","#"," ","G">>, <<60, 63, 67>> >> }

\* the sequences the two functions are run on, the empty one included
MidiSequences == UNION { [1..n -> MidiEntries] : n \in 0..MaxChords }

MIDI_VELOCITY == 127

\* mid.ticks_per_beat of a new mido.MidiFile()
ticks_per_beat == 480

\* mido.Message(type, note=, velocity=, time=)
Message(type, note, velocity, time) == <<type, note, velocity, time>>

\* a slip of lines 76-77: the last note's two messages are appended in the other order
TrackNoteOffFirst(trk, n, note) ==
    IF n < 2
    THEN trk \o << Message("note_on", note, 64, 0), Message("note_off", note, 64, ticks_per_beat) >>
    ELSE trk \o << Message("note_off", note, 64, ticks_per_beat * 2), Message("note_on", note, 64, 0) >>

\* create_midi_file, lines 72-77: the messages appended for note n (0-based) of an entry
TrackNote(trk, n, note) ==
    IF n < 2
    THEN trk \o << Message("note_on", note, 64, 0), Message("note_off", note, 64, ticks_per_beat) >>
    ELSE trk \o << Message("note_on", note, 64, 0), Message("note_off", note, 64, ticks_per_beat * 2) >>

InitMidi ==
    /\ pc \in {"play", "file"}
    /\ error = "none"
    /\ chords = <<>>
    /\ midi_range = <<40, 90>>
    /\ triad_type = <<>>
    /\ triads = <<>>
    /\ graph = EmptyGraph
    /\ i = 0
    /\ layer = <<>>
    /\ candidates = <<>>
    /\ k = 0
    /\ start_chords = <<>>
    /\ s = 0
    /\ best_cost = Infinity
    /\ best_path = <<>>
    /\ optimal_path_midis \in MidiSequences
    /\ notes = <<>>
    /\ valid_midis = <<>>
    /\ outport = <<>>
    /\ track = <<>>
    /\ chord_at = 0
    /\ note_at = 0

pipelineVars ==
    <<error, chords, midi_range, triad_type, triads, graph, i, layer, candidates, k, start_chords,
      s, best_cost, best_path, optimal_path_midis, notes, valid_midis>>

\* play_note, line 35: the note-on of the current note is sent; then the sleep
PlayNoteOn ==
    /\ pc = "play"
    /\ chord_at < Len(optimal_path_midis)
    /\ note_at < Len(optimal_path_midis[chord_at + 1][3])
    /\ outport' = Append(outport, Message("note_on", optimal_path_midis[chord_at + 1][3][note_at + 1],
                                          MIDI_VELOCITY, 0))
    /\ pc' = "play_sleep"
    /\ UNCHANGED <<track, chord_at, note_at>>
    /\ UNCHANGED pipelineVars

\* play_note, line 37: after the sleep the note-off of the same note is sent
PlayNoteOff ==
    /\ pc = "play_sleep"
    /\ outport' = Append(outport, Message("note_off", optimal_path_midis[chord_at + 1][3][note_at + 1],
                                          MIDI_VELOCITY, 0))
    /\ note_at' = note_at + 1
    /\ pc' = "play"
    /\ UNCHANGED <<track, chord_at>>
    /\ UNCHANGED pipelineVars

\* play_midi_sequence, line 52: the notes of the entry are played, the pause follows
PlayPause ==
    /\ pc = "play"
    /\ chord_at < Len(optimal_path_midis)
    /\ note_at = Len(optimal_path_midis[chord_at + 1][3])
    /\ chord_at' = chord_at + 1
    /\ note_at' = 0
    /\ UNCHANGED <<pc, outport, track>>
    /\ UNCHANGED pipelineVars

\* play_midi_sequence returns
PlayReturn ==
    /\ pc = "play"
    /\ chord_at = Len(optimal_path_midis)
    /\ pc' = "played"
    /\ UNCHANGED midiVars
    /\ UNCHANGED pipelineVars

\* create_midi_file, lines 62-68: a new track that starts with the tempo
FileStart ==
    /\ pc = "file"
    /\ track' = << <<"set_tempo", 500000>> >>
    /\ pc' = "file_loop"
    /\ UNCHANGED <<outport, chord_at, note_at>>
    /\ UNCHANGED pipelineVars

\* create_midi_file, lines 71-77: one note of the current entry
FileNote ==
    /\ pc = "file_loop"
    /\ chord_at < Len(optimal_path_midis)
    /\ note_at < Len(optimal_path_midis[chord_at + 1][3])
    /\ track' = TrackNote(track, note_at, optimal_path_midis[chord_at + 1][3][note_at + 1])
    /\ note_at' = note_at + 1
    /\ UNCHANGED <<pc, outport, chord_at>>
    /\ UNCHANGED pipelineVars

\* create_midi_file, line 70: on to the next entry
FileNextEntry ==
    /\ pc = "file_loop"
    /\ chord_at < Len(optimal_path_midis)
    /\ note_at = Len(optimal_path_midis[chord_at + 1][3])
    /\ chord_at' = chord_at + 1
    /\ note_at' = 0
    /\ UNCHANGED <<pc, outport, track>>
    /\ UNCHANGED pipelineVars

\* create_midi_file, line 79: the file is saved with the track as it stands
FileSave ==
    /\ pc = "file_loop"
    /\ chord_at = Len(optimal_path_midis)
    /\ pc' = "saved"
    /\ UNCHANGED midiVars
    /\ UNCHANGED pipelineVars

NextMidi ==
    \/ PlayNoteOn
    \/ PlayNoteOff
    \/ PlayPause
    \/ PlayReturn
    \/ FileStart
    \/ FileNote
    \/ FileNextEntry
    \/ FileSave

SpecMidi == InitMidi /\ [][NextMidi]_vars

-----------------------------------------------------------------------------
(* What the properties below speak of, defined without the operators above *)

\* |a - b| summed over the three voices
Movement(a, b) ==
    (IF a[1] >= b[1] THEN a[1] - b[1] ELSE b[1] - a[1])
    + (IF a[2] >= b[2] THEN a[2] - b[2] ELSE b[2] - a[2])
    + (IF a[3] >= b[3] THEN a[3] - b[3] ELSE b[3] - a[3])

\* the total movement along a returned list of <<chord, inversion, midi_notes>>
RECURSIVE PathTotal(_)
PathTotal(path) ==
    IF Len(path) < 2 THEN 0
    ELSE Movement(path[1][3], path[2][3]) + PathTotal(Tail(path))

\* the pitches of a note name inside a range
PitchesOf(note, rng) == { p \in rng[1]..rng[2] : p % 12 = NOTE_TO_MIDI_BASE(note) % 12 }

\* every valid voicing of one arrangement: strictly ascending, neighbours at
\* most an octave apart, inside the range
ValidVoicingsOf(nts, rng) ==
    { v \in PitchesOf(nts[1], rng) \X PitchesOf(nts[2], rng) \X PitchesOf(nts[3], rng) :
        /\ v[1] < v[2] /\ v[2] < v[3]
        /\ v[2] - v[1] <= 12 /\ v[3] - v[2] <= 12 }

\* every valid voicing of a chord of the progression, over its arrangements
ChordVoicings(chord) ==
    UNION { ValidVoicingsOf(Split(triads[chord][a]), midi_range) : a \in 1..Len(triads[chord]) }

\* the totals of all sequences that pick one voicing from Vs[j], Vs[j+1], ...
\* after the voicing prev
RECURSIVE TotalsFrom(_, _, _)
TotalsFrom(Vs, j, prev) ==
    IF j > Len(Vs) THEN {0}
    ELSE UNION { { Movement(prev, v) + rest : rest \in TotalsFrom(Vs, j + 1, v) } : v \in Vs[j] }

AllTotals ==
    LET Vs == [j \in 1..Len(chords) |-> ChordVoicings(chords[j])]
    IN  UNION { TotalsFrom(Vs, 2, v) : v \in Vs[1] }

Least(S) == CHOOSE x \in S : \A y \in S : x <= y

NoRepeatedNeighbour == \A j \in 1..(Len(chords) - 1) : chords[j] # chords[j + 1]

Returned == pc = "done" /\ optimal_path_midis # <<>>

-----------------------------------------------------------------------------
(* C1 *)

-----------------------------------------------------------------------------
(* C2 *)

\* the weight of the edge u -> v of the graph, -1 when there is none
EdgeWeight(G, u, v) ==
    IF \E e \in Edges(G) : e[1] = u /\ e[2] = v
    THEN (CHOOSE e \in Edges(G) : e[1] = u /\ e[2] = v)[3]
    ELSE -1

\* the weight accumulated along a list of nodes
RECURSIVE WeightAlong(_, _)
WeightAlong(G, path) ==
    IF Len(path) < 2 THEN 0
    ELSE EdgeWeight(G, path[1], path[2]) + WeightAlong(G, Tail(path))

\* the weights of all walks of the graph from node u to a node of targets
RECURSIVE WalkWeights(_, _, _)
WalkWeights(G, u, targets) ==
    (IF u \in targets THEN {0} ELSE {})
    \cup UNION { { G.succ[u][n][2] + rest : rest \in WalkWeights(G, G.succ[u][n][1], targets) } :
                 n \in 1..Len(G.succ[u]) }

\* the last-position nodes named as the last chord
LastNodes ==
    { G \in { graph.nodes[n] : n \in 1..Len(graph.nodes) } :
        G[1] = Len(chords) - 1 /\ G[2] = chords[Len(chords)] }

\* the weights of all walks from any start node to any such node
AllWalkWeights ==
    UNION { WalkWeights(graph, start_chords[n], LastNodes) : n \in 1..Len(start_chords) }

\* C2: the returned path is a walk of the graph from a start node to a
\* last-position node named as the last chord, and its accumulated weight is
\* the least shortest-path distance over all start nodes and all such nodes
C2_GlobalMinimum ==
    Returned =>
        /\ \A n \in 1..(Len(best_path) - 1) : EdgeWeight(graph, best_path[n], best_path[n + 1]) >= 0
        /\ \E n \in 1..Len(start_chords) : start_chords[n] = best_path[1]
        /\ best_path[Len(best_path)] \in LastNodes
        /\ WeightAlong(graph, best_path) = Least(AllWalkWeights)
        /\ best_cost = Finite(Least(AllWalkWeights))

\* several start nodes reach the last position, and the best of them is
\* strictly better than the last one processed
C2_Witness ==
    /\ Returned
    /\ Len(start_chords) >= 2
    /\ WalkWeights(graph, start_chords[Len(start_chords)], LastNodes) # {}
    /\ Least(WalkWeights(graph, start_chords[Len(start_chords)], LastNodes)) > Least(AllWalkWeights)

-----------------------------------------------------------------------------
(* C3 *)

\* strictly ascending, neighbours at most 12 apart, all pitches inside the range
WellFormed(v, rng) ==
    /\ v[1] < v[2] /\ v[2] < v[3]
    /\ v[2] - v[1] <= 12 /\ v[3] - v[2] <= 12
    /\ rng[1] <= v[1] /\ v[3] <= rng[2]

\* C3: every voicing find_all_triads_in_range returns for an arrangement made
\* by generate_triads (the current and the next nodes of every position), the
\* voicing of every node of the graph and every entry of the returned path is
\* strictly ascending, has neighbours at most 12 apart and lies inside the range
C3_VoicingsWellFormed ==
    /\ \A n \in 1..Len(layer) : WellFormed(layer[n][4], midi_range)
    /\ \A n \in 1..Len(candidates) : WellFormed(candidates[n][4], midi_range)
    /\ \A n \in 1..Len(graph.nodes) : WellFormed(graph.nodes[n][4], midi_range)
    /\ \A n \in 1..Len(optimal_path_midis) : WellFormed(optimal_path_midis[n][3], midi_range)

\* a path is returned in a range wide enough for two neighbours of a
\* candidate to lie more than an octave apart, one voicing spanning an octave
C3_Witness ==
    /\ Returned
    /\ Len(chords) = 3
    /\ midi_range[2] - midi_range[1] > 13
    /\ \E n \in 1..Len(graph.nodes) : graph.nodes[n][4][3] - graph.nodes[n][4][1] >= 12

-----------------------------------------------------------------------------
(* C4 *)

\* how often a voicing occurs in a returned list
Occurrences(list, v) == Cardinality({ n \in 1..Len(list) : list[n] = v })

\* C4: the list find_all_triads_in_range returns holds, exactly once, every
\* triple of pitches of the three notes' pitch classes that is strictly
\* ascending, has neighbours at most 12 apart and lies inside the range
C4_EnumerationComplete ==
    pc = "enum_done" =>
        \A v \in ValidVoicingsOf(notes, midi_range) : Occurrences(valid_midis, v) = 1

-----------------------------------------------------------------------------
(* C5 *)

Building == pc \in {"for_i", "for_node"}

Built == pc = "for_i" /\ i >= Len(chords) - 1

\* C5: at every step of the construction every edge carries a non-negative
\* integer, the sum over the three positions of the absolute pitch differences
\* of its two voicings; the cost of the opposite direction is the same, and
\* the weight is 0 exactly when the two voicings are the same tuple
C5_EdgeWeights ==
    Building =>
        \A e \in Edges(graph) :
            /\ e[3] \in Nat
            /\ e[3] = Movement(e[1][4], e[2][4])
            /\ e[3] = Cost(e[2][4], e[1][4])
            /\ (e[3] = 0) <=> (e[1][4] = e[2][4])

\* a finished graph with a zero-weight edge and an edge of positive weight
C5_Witness ==
    /\ Built
    /\ \E e \in Edges(graph) : e[3] = 0
    /\ \E e \in Edges(graph) : e[3] > 0 /\ e[1][4][1] > e[2][4][1]

-----------------------------------------------------------------------------
(* C6 *)

\* every (arrangement, voicing) node of the chord at position pos (0-based)
ExpectedNodes(pos) ==
    LET chord == chords[pos + 1]
    IN  UNION { { <<pos, chord, triads[chord][a], v>> :
                    v \in ValidVoicingsOf(Split(triads[chord][a]), midi_range) } :
                a \in 1..Len(triads[chord]) }

NodeSet(G) == { G.nodes[n] : n \in 1..Len(G.nodes) }

\* C6: in the finished graph, for two neighbouring positions whose chord
\* names differ as text, every node of the earlier chord has an edge to every
\* node of the later chord, weighted by its own cost, and no other edge
C6_FullyConnected ==
    Built =>
        \A pos \in 0..(Len(chords) - 2) :
            chords[pos + 1] # chords[pos + 2] =>
                \A u \in ExpectedNodes(pos) :
                    /\ u \in NodeSet(graph)
                    /\ Len(graph.succ[u]) = Cardinality(ExpectedNodes(pos + 1))
                    /\ \A v \in ExpectedNodes(pos + 1) :
                           <<u, v, Movement(u[4], v[4])>> \in Edges(graph)

\* two spellings of one triad follow each other inside a three-chord
\* progression, and the edges between them include zero-cost ones
C6_Witness ==
    /\ Built
    /\ Len(chords) = 3
    /\ chords[2] = <<"C", "#">>
    /\ chords[3] = <<"D", "b">>
    /\ \E e \in Edges(graph) : e[1][1] = 1 /\ e[3] = 0
    /\ \E e \in Edges(graph) : e[1][1] = 1 /\ e[3] > 0

-----------------------------------------------------------------------------
(* C7 *)

\* the candidates of a node of position pos, in the order the loops of lines
\* 67-71 generate them
Generated(pos) == LayerNodes(chords, pos + 1, midi_range, triads)

\* the places, in generation order, of the candidates of positive cost from u
PositivePlaces(u, cands) == { n \in 1..Len(cands) : Movement(u[4], cands[n][4]) > 0 }

\* the first place, in generation order, of a candidate of least positive cost
FirstCheapest(u, cands) ==
    LET places == PositivePlaces(u, cands)
        least == Least({ Movement(u[4], cands[n][4]) : n \in places })
    IN  Least({ n \in places : Movement(u[4], cands[n][4]) = least })

\* C7: for two neighbouring positions with the same chord name, every node of
\* the earlier position gets exactly one outgoing edge: to the first generated
\* candidate of least strictly positive cost when a candidate of positive cost
\* exists, and to a zero-cost candidate only when all candidates cost zero;
\* the construction never fails for lack of candidates
C7_RepeatedChordEdge ==
    /\ error # "IndexError"
    /\ Built =>
        \A pos \in 0..(Len(chords) - 2) :
            chords[pos + 1] = chords[pos + 2] =>
                \A u \in ExpectedNodes(pos) :
                    LET cands == Generated(pos)
                    IN  /\ Len(graph.succ[u]) = 1
                        /\ IF PositivePlaces(u, cands) # {}
                           THEN graph.succ[u][1] =
                                    << cands[FirstCheapest(u, cands)],
                                       Movement(u[4], cands[FirstCheapest(u, cands)][4]) >>
                           ELSE /\ graph.succ[u][1][2] = 0
                                /\ \E n \in 1..Len(cands) : cands[n] = graph.succ[u][1][1]
                                /\ \A n \in 1..Len(cands) : Movement(u[4], cands[n][4]) = 0

\* a finished graph of a repeated chord in which one node has several
\* candidates of least positive cost and a zero-cost candidate besides
C7_Witness ==
    /\ Built
    /\ \E pos \in 0..(Len(chords) - 2) :
           /\ chords[pos + 1] = chords[pos + 2]
           /\ \E u \in ExpectedNodes(pos) :
                  LET cands == Generated(pos)
                  IN  /\ PositivePlaces(u, cands) # {}
                      /\ Cardinality({ n \in PositivePlaces(u, cands) :
                             Movement(u[4], cands[n][4])
                                 = Movement(u[4], cands[FirstCheapest(u, cands)][4]) }) >= 2
                      /\ \E n \in 1..Len(cands) : Movement(u[4], cands[n][4]) = 0

\* a finished graph of a repeated chord whose only voicing leads to itself
C7_WitnessFallback ==
    /\ Built
    /\ \E pos \in 0..(Len(chords) - 2) :
           /\ chords[pos + 1] = chords[pos + 2]
           /\ \E u \in ExpectedNodes(pos) : graph.succ[u] = << <<[u EXCEPT ![1] = pos + 1], 0>> >>

-----------------------------------------------------------------------------
(* C8 *)

\* C8: in a returned path two neighbouring entries with the same chord name
\* differ in their voicing (the transition costs more than 0), unless that
\* voicing is the chord's only voicing in the range
C8_RepeatedChordMoves ==
    Returned =>
        \A j \in 1..(Len(optimal_path_midis) - 1) :
            optimal_path_midis[j][1] = optimal_path_midis[j + 1][1] =>
                \/ Movement(optimal_path_midis[j][3], optimal_path_midis[j + 1][3]) > 0
                \/ ChordVoicings(optimal_path_midis[j][1]) = { optimal_path_midis[j][3] }

\* a returned path of three chords whose last two carry the same name, a
\* chord with several voicings, and differ in their voicing
C8_Witness ==
    /\ Returned
    /\ Len(chords) = 3
    /\ chords[1] # chords[2]
    /\ chords[2] = chords[3]
    /\ Cardinality(ChordVoicings(chords[2])) >= 2
    /\ Movement(optimal_path_midis[2][3], optimal_path_midis[3][3]) > 0

-----------------------------------------------------------------------------
(* C9 *)

\* C9: when the run on a progression of two or more chords ends and no walk
\* of the graph leads from a start node to a last-position node of the last
\* chord, it has ended with an error, not with a returned (empty) list
C9_NoFeasiblePathSignalled ==
    (pc = "done" /\ Len(chords) >= 2 /\ AllWalkWeights = {}) =>
        /\ error # "none"
        /\ optimal_path_midis # <<>>

-----------------------------------------------------------------------------
(* C10 *)

EveryChordFits == \A j \in 1..Len(chords) : ChordVoicings(chords[j]) # {}

\* C10: when every chord of the progression has a voicing in the range, the
\* returned list has one entry per position, in order: entry j carries the
\* name of chord j and a voicing of the node of position j of the path
C10_OneEntryPerPosition ==
    (pc = "done" /\ EveryChordFits) =>
        /\ Len(optimal_path_midis) = Len(chords)
        /\ \A j \in 1..Len(optimal_path_midis) :
               /\ optimal_path_midis[j][1] = chords[j]
               /\ best_path[j][1] = j - 1
               /\ optimal_path_midis[j][3] = best_path[j][4]
               /\ optimal_path_midis[j][3] \in ChordVoicings(chords[j])

-----------------------------------------------------------------------------
(* C11 *)

\* C11: the run on the progression C, G in the range (60, 72) with the
\* default position mode 'spread' returns a list of exactly 2 entries, the
\* first named C and the last named G
C11_SpreadCtoG ==
    (/\ pc = "done"
     /\ chords = << <<"C">>, <<"G">> >>
     /\ midi_range = <<60, 72>>
     /\ triad_type = <<"s","p","r","e","a","d">>) =>
        /\ Len(optimal_path_midis) = 2
        /\ optimal_path_midis[1][1] = <<"C">>
        /\ optimal_path_midis[2][1] = <<"G">>

-----------------------------------------------------------------------------
(* C12 *)

\* the root a chord token starts with: a letter A-G and a '#' or 'b' after it
RootOf(token) ==
    IF Len(token) >= 2 /\ token[2] \in {"#", "b"} THEN <<token[1], token[2]>> ELSE <<token[1]>>

\* the token starts with a letter A-G, optionally followed by # or b, and that
\* spelling is one of the seventeen names of the twelve pitch classes
HasValidRoot(token) ==
    /\ token # <<>>
    /\ token[1] \in {"A", "B", "C", "D", "E", "F", "G"}
    /\ RootOf(token) \in NoteNames

\* C12: for a chord token whose root is not a valid pitch-class name,
\* generate_triads ends with a ParseError and with no other error; no
\* arrangement is produced and no graph is built
C12_ParseErrorRaised ==
    (pc # "triads" /\ ~HasValidRoot(chords[1])) =>
        /\ pc = "crashed"
        /\ error = "ParseError"
        /\ triads = <<>>
        /\ graph = EmptyGraph

-----------------------------------------------------------------------------
(* C13 *)

\* what follows the root in a chord token
SuffixOf(token) == SubSeq(token, Len(RootOf(token)) + 1, Len(token))

\* the natural or sharp name of a pitch class
SharpName(p) ==
    CHOOSE n \in NoteNames : NOTE_TO_MIDI_BASE(n) % 12 = p % 12 /\ (Len(n) = 1 \/ n[2] = "#")

\* semitones from the root to the third and to the fifth of a quality;
\* a suffix that names no quality counts as major
StepsOf(suffix) ==
    CASE suffix = <<"m">> -> <<3, 7>>
      [] suffix = <<"d","i","m">> -> <<3, 6>>
      [] suffix = <<"a","u","g">> -> <<4, 8>>
      [] OTHER -> <<4, 7>>

\* root, third and fifth of a chord token: the root as the token spells it
RootThirdFifth(token) ==
    LET r == NOTE_TO_MIDI_BASE(RootOf(token))
    IN  << RootOf(token),
           SharpName(r + StepsOf(SuffixOf(token))[1]),
           SharpName(r + StepsOf(SuffixOf(token))[2]) >>

Recognized(suffix) == suffix \in { <<"M">>, <<"m">>, <<"d","i","m">>, <<"a","u","g">> }

\* C13: for a chord token with a valid root generate_triads succeeds; every
\* arrangement it returns orders the root, the third and the fifth of the
\* suffix's quality, the major third and fifth when the suffix is absent or
\* names no quality; with such a suffix the list is the list of the bare root
C13_MajorByDefault ==
    (pc # "triads" /\ HasValidRoot(chords[1])) =>
        /\ pc # "crashed"
        /\ DOMAIN triads = {chords[1]}
        /\ \A a \in 1..Len(triads[chords[1]]) :
               LET names == Split(triads[chords[1]][a])
               IN  /\ Len(names) = 3
                   /\ { names[n] : n \in 1..3 }
                          = { RootThirdFifth(chords[1])[n] : n \in 1..3 }
        /\ ~Recognized(SuffixOf(chords[1])) =>
               triads[chords[1]] = generate_triads(RootOf(chords[1]), triad_type)

\* the triads of Dbm7 were generated: its arrangements hold F, not E
C13_Witness ==
    /\ pc = "for_i"
    /\ chords = << <<"D","b","m","7">> >>
    /\ triads[chords[1]] # <<>>
    /\ \A a \in 1..Len(triads[chords[1]]) :
           \E n \in 1..3 : Split(triads[chords[1]][a])[n] = <<"F">>

-----------------------------------------------------------------------------
(* C14 *)

\* "x y z" for the places a, b, c of a list of three names
Arranged(names, a, b, c) == names[a] \o <<" ">> \o names[b] \o <<" ">> \o names[c]

\* the six orders of root, third, fifth in the order of itertools.permutations
SixOrders(token) ==
    LET n == RootThirdFifth(token)
    IN  << Arranged(n, 1, 2, 3), Arranged(n, 1, 3, 2), Arranged(n, 2, 1, 3),
           Arranged(n, 2, 3, 1), Arranged(n, 3, 1, 2), Arranged(n, 3, 2, 1) >>

ListSet(list) == { list[n] : n \in 1..Len(list) }

\* C14: the list generate_triads returns is fixed by the chord and the mode:
\* 'all' is the six orders of (root, third, fifth) in itertools order, 'close'
\* the orders at indices 0, 3, 4 and 'spread' those at indices 1, 2, 5; so
\* 'close' and 'spread' share nothing, together make up 'all', and each
\* holds three arrangements with three different lowest notes
C14_ModesSelectFixedIndices ==
    (pc # "triads" /\ HasValidRoot(chords[1])) =>
        LET token == chords[1]
            six == SixOrders(token)
            close == generate_triads(token, <<"c","l","o","s","e">>)
            spread == generate_triads(token, <<"s","p","r","e","a","d">>)
            all == generate_triads(token, <<"a","l","l">>)
        IN  /\ triads[token] =
                   CASE triad_type = <<"a","l","l">> -> six
                     [] triad_type = <<"c","l","o","s","e">> -> <<six[1], six[4], six[5]>>
                     [] triad_type = <<"s","p","r","e","a","d">> -> <<six[2], six[3], six[6]>>
            /\ ListSet(close) \cap ListSet(spread) = {}
            /\ ListSet(close) \cup ListSet(spread) = ListSet(all)
            /\ Len(all) = 6 /\ Cardinality(ListSet(all)) = 6
            /\ triad_type # <<"a","l","l">> =>
                   /\ Len(triads[token]) = 3
                   /\ Cardinality({ Split(triads[token][a])[1] : a \in 1..3 }) = 3

\* the close arrangements of Gb diminished were generated
C14_Witness ==
    /\ pc = "for_i"
    /\ chords = << <<"G","b","d","i","m">> >>
    /\ triad_type = <<"c","l","o","s","e">>
    /\ triads[chords[1]] = << <<"G","b"," ","A"," ","C">>, <<"A"," ","C"," ","G","b">>,
                              <<"C"," ","G","b"," ","A">> >>

-----------------------------------------------------------------------------
(* C15 *)

\* the pitches of the first n entries of a voicing sequence, in path order
RECURSIVE PitchesUpTo(_, _)
PitchesUpTo(seq, n) == IF n = 0 THEN <<>> ELSE PitchesUpTo(seq, n - 1) \o seq[n][3]

\* the note-on and note-off messages of a list of messages, in order
NoteEvents(list) == SelectSeq(list, LAMBDA m : m[1] \in {"note_on", "note_off"})

\* the pitches of the note-on messages of a list, in order
OnPitches(list) ==
    LET ons == SelectSeq(list, LAMBDA m : m[1] = "note_on")
    IN  [n \in 1..Len(ons) |-> ons[n][2]]

Playing == pc \in {"play", "play_sleep", "played"}

Filing == pc \in {"file_loop", "saved"}

\* the pitches the loops have reached: the entries handled, the notes handled
\* of the current entry, and the note that is sounding
Reached ==
    PitchesUpTo(optimal_path_midis, chord_at)
    \o (IF chord_at < Len(optimal_path_midis)
        THEN SubSeq(optimal_path_midis[chord_at + 1][3], 1,
                    IF pc = "play_sleep" THEN note_at + 1 ELSE note_at)
        ELSE <<>>)

\* C15: at every step of play_midi_sequence and of create_midi_file the
\* pitches of the note-on events emitted so far are the pitches of the
\* voicings in path order, unchanged; every note-on is directly followed by
\* the note-off of the same pitch (only the note that is sounding has none
\* yet); when the function ends all pitches of the sequence were emitted and
\* nothing else
C15_NoteEventsFollowPath ==
    (Playing \/ Filing) =>
        LET ev == NoteEvents(IF Playing THEN outport ELSE track)
        IN  /\ OnPitches(ev) = Reached
            /\ \A n \in 1..Len(ev) :
                   IF n % 2 = 1
                   THEN /\ ev[n][1] = "note_on"
                        /\ n = Len(ev) => pc = "play_sleep"
                   ELSE /\ ev[n][1] = "note_off"
                        /\ ev[n][2] = ev[n - 1][2]
            /\ pc = "play_sleep" => Len(ev) % 2 = 1
            /\ pc \in {"played", "saved"} =>
                   /\ OnPitches(ev) = PitchesUpTo(optimal_path_midis, Len(optimal_path_midis))
                   /\ Len(ev) = 2 * Len(OnPitches(ev))

\* a file was saved for two different voicings that share a pitch
C15_Witness ==
    /\ pc = "saved"
    /\ Len(optimal_path_midis) = 2
    /\ optimal_path_midis[1][3] # optimal_path_midis[2][3]
    /\ OnPitches(track) = <<60, 64, 67, 59, 62, 67>>
    /\ Len(track) = 13

-----------------------------------------------------------------------------
(* C16 *)

\* C16: after every step of the construction every node carries a position
\* of the progression and the chord of that position, and every edge leads
\* from a node to a node of the next position (so there is no self-loop, no
\* edge backwards and no edge across a position, and no cycle); every node has
\* its own entry in the graph, and when the construction ends every voicing
\* of every position but the last is a node of that position
C16_LayeredGraph ==
    /\ \A node \in NodeSet(graph) :
           /\ node[1] \in 0..(Len(chords) - 1)
           /\ node[2] = chords[node[1] + 1]
    /\ \A e \in Edges(graph) :
           /\ e[1] \in NodeSet(graph) /\ e[2] \in NodeSet(graph)
           /\ e[2][1] = e[1][1] + 1
    /\ DOMAIN graph.succ = NodeSet(graph)
    /\ Cardinality(NodeSet(graph)) = Len(graph.nodes)
    /\ (Built /\ error = "none") =>
           \A pos \in 0..(Len(chords) - 2) : ExpectedNodes(pos) \subseteq NodeSet(graph)

\* while the second position of a progression X, Y, X is under construction
\* the graph already holds one voicing of X both at position 0 and at position 2
C16_Witness ==
    /\ pc = "for_node"
    /\ i = 1
    /\ k < Len(layer)
    /\ Len(chords) = 3
    /\ chords[1] = chords[3]
    /\ chords[1] # chords[2]
    /\ \E u \in NodeSet(graph) :
           /\ u[1] = 0
           /\ <<2, u[2], u[3], u[4]>> \in NodeSet(graph)

-----------------------------------------------------------------------------
(* C17 *)

\* the last-position nodes named as the last chord, in node insertion order
TargetsInOrder ==
    SelectSeq(graph.nodes, LAMBDA node : node[1] = Len(chords) - 1 /\ node[2] = chords[Len(chords)])

\* the candidates examined so far, as <<start place, target place>>: the
\* target can be reached from the start, and the start has been processed
Examined ==
    { c \in (1..s) \X (1..Len(TargetsInOrder)) :
        WalkWeights(graph, start_chords[c[1]], {TargetsInOrder[c[2]]}) # {} }

\* the least accumulated cost from a candidate's start to its target
CandidateCost(c) == Least(WalkWeights(graph, start_chords[c[1]], {TargetsInOrder[c[2]]}))

\* the candidates of least cost among the examined ones
Cheapest == { c \in Examined : \A d \in Examined : CandidateCost(c) <= CandidateCost(d) }

\* the one found first: earliest start, then earliest target
FirstFound ==
    CHOOSE c \in Cheapest :
        \A d \in Cheapest : c[1] < d[1] \/ (c[1] = d[1] /\ c[2] <= d[2])

\* C17: after every start node processed, the best path is the candidate of
\* least cost found first (earliest start in start_chords order, then
\* earliest target in node insertion order): a candidate of equal cost found
\* later has not replaced it; the returned list is that path
C17_FirstFoundWins ==
    (pc \in {"optimize", "done"} /\ Examined # {}) =>
        /\ best_cost = Finite(CandidateCost(FirstFound))
        /\ best_path[1] = start_chords[FirstFound[1]]
        /\ best_path[Len(best_path)] = TargetsInOrder[FirstFound[2]]
        /\ pc = "done" => optimal_path_midis = best_path_midis(best_path)

\* a path was returned although a later start and a later target of the
\* first start reach the same least cost
C17_Witness ==
    /\ pc = "done"
    /\ Len(chords) = 3
    /\ Examined # {}
    /\ \E c \in Cheapest : c[1] > FirstFound[1]
    /\ \E c \in Cheapest : c[1] = FirstFound[1] /\ c[2] > FirstFound[2]

-----------------------------------------------------------------------------
(* C18 *)

\* the construction has ended and the graph is final
Constructed == Built \/ pc \in {"optimize", "done"}

\* C18: for a progression of two or more chords that all have a voicing in
\* the range, in the final graph every node of every position but the last
\* has an outgoing edge, every voicing of the first chord is a node and
\* reaches a last-position node of the last chord, and the run returns a
\* non-empty path
C18_NeverDisconnected ==
    (Constructed /\ Len(chords) >= 2 /\ EveryChordFits) =>
        /\ error = "none"
        /\ \A node \in NodeSet(graph) : node[1] < Len(chords) - 1 => Len(graph.succ[node]) >= 1
        /\ \A u \in ExpectedNodes(0) :
               /\ u \in NodeSet(graph)
               /\ WalkWeights(graph, u, LastNodes) # {}
        /\ pc = "done" => optimal_path_midis # <<>>

\* a path was returned for a three-chord progression that starts by
\* repeating a chord with a single voicing: the zero-cost edge is the only
\* way on from its node
C18_Witness ==
    /\ pc = "done"
    /\ optimal_path_midis # <<>>
    /\ Len(chords) = 3
    /\ chords[1] = chords[2]
    /\ Cardinality(ChordVoicings(chords[1])) = 1
    /\ optimal_path_midis[1][3] = optimal_path_midis[2][3]

-----------------------------------------------------------------------------
(* C19 *)

\* may the voicing v follow the voicing prev, where same tells whether the
\* two chords carry the same name: a repeated chord must move unless it has
\* no other voicing
MayFollow(prev, v, same, Vnext) == ~same \/ prev # v \/ Vnext = {prev}

\* the totals of all sequences that pick one voicing from Vs[j], Vs[j+1], ...
\* after the voicing prev and move on every repeated chord
RECURSIVE MovingTotalsFrom(_, _, _)
MovingTotalsFrom(Vs, j, prev) ==
    IF j > Len(Vs) THEN {0}
    ELSE UNION { { Movement(prev, v) + rest : rest \in MovingTotalsFrom(Vs, j + 1, v) } :
                 v \in { w \in Vs[j] : MayFollow(prev, w, chords[j - 1] = chords[j], Vs[j]) } }

MovingTotals ==
    LET Vs == [j \in 1..Len(chords) |-> ChordVoicings(chords[j])]
    IN  UNION { MovingTotalsFrom(Vs, 2, v) : v \in Vs[1] }

\* the nodes that may follow the node u of chord j - 1 (1-based) when a
\* repeated chord moves to the first generated candidate of least positive
\* cost only (and stays only when every candidate costs 0)
NearestFollowers(u, j) ==
    LET cands == Generated(j - 2)
    IN  IF chords[j - 1] # chords[j] THEN { cands[n] : n \in 1..Len(cands) }
        ELSE IF PositivePlaces(u, cands) # {} THEN { cands[FirstCheapest(u, cands)] }
        ELSE { cands[n] : n \in 1..Len(cands) }

\* the totals of all sequences that obey NearestFollowers from chord j on
RECURSIVE NearestTotalsFrom(_, _)
NearestTotalsFrom(j, u) ==
    IF j > Len(chords) THEN {0}
    ELSE UNION { { Movement(u[4], v[4]) + rest : rest \in NearestTotalsFrom(j + 1, v) } :
                 v \in NearestFollowers(u, j) }

NearestTotals == UNION { NearestTotalsFrom(2, u) : u \in ExpectedNodes(0) }

\* C19 as stated: for a progression with a consecutively repeated chord name
\* the total movement of the returned path is the least total over all
\* sequences of valid voicings in which every repeated-chord transition moves
\* a voice (where the chord has another voicing to move to)
C19_AlwaysMovingMinimum ==
    (Returned /\ ~NoRepeatedNeighbour) => PathTotal(optimal_path_midis) = Least(MovingTotals)

\* C19, amended: the total of the returned path is the least total over the
\* sequences in which every repeated chord moves from each voicing to that
\* voicing's first cheapest different voicing; it is never below the least
\* total over all sequences that move on every repeated chord
C19_NearestMoveMinimum ==
    (Returned /\ ~NoRepeatedNeighbour) =>
        /\ PathTotal(optimal_path_midis) = Least(NearestTotals)
        /\ PathTotal(optimal_path_midis) >= Least(MovingTotals)

\* a path was returned whose total lies above the least total of the
\* sequences that move on the repeated chord
C19_Witness ==
    /\ Returned
    /\ Len(chords) = 4
    /\ chords[2] = chords[3]
    /\ PathTotal(optimal_path_midis) > Least(MovingTotals)
    /\ Movement(optimal_path_midis[2][3], optimal_path_midis[3][3]) > 0

-----------------------------------------------------------------------------
(* C20 *)

\* the pitch class of a note name
PitchClass(note) == NOTE_TO_MIDI_BASE(note) % 12

\* C20: for any three note names, names repeated or spelled enharmonically
\* included, every voicing find_all_triads_in_range returns is non-decreasing
\* and lies inside the range and inside 36..95; two neighbouring pitches are
\* equal only if their two names have the same pitch class; and the test is
\* not strict: when the first two names have one pitch class, a triple that
\* doubles a pitch of that class below a pitch of the third name is returned
C20_NonDecreasingInReach ==
    pc = "enum_done" =>
        /\ \A n \in 1..Len(valid_midis) :
               LET v == valid_midis[n]
               IN  /\ v[1] <= v[2] /\ v[2] <= v[3]
                   /\ \A m \in 1..3 :
                          /\ midi_range[1] <= v[m] /\ v[m] <= midi_range[2]
                          /\ 36 <= v[m] /\ v[m] <= 95
                          /\ v[m] % 12 = PitchClass(notes[m])
                   /\ \A m \in 1..2 :
                          v[m] = v[m + 1] => PitchClass(notes[m]) = PitchClass(notes[m + 1])
        /\ PitchClass(notes[1]) = PitchClass(notes[2]) =>
               \A p \in PitchesOf(notes[1], midi_range), q \in PitchesOf(notes[3], midi_range) :
                   (36 <= p /\ p <= q /\ q <= 95 /\ q - p <= 12) =>
                       Occurrences(valid_midis, <<p, p, q>>) = 1

\* the call on C#, Db, E returned a voicing that doubles one pitch
C20_Witness ==
    /\ pc = "enum_done"
    /\ notes = << <<"C","#">>, <<"D","b">>, <<"E">> >>
    /\ Occurrences(valid_midis, <<61, 61, 64>>) = 1
    /\ Len(valid_midis) > 1

=============================================================================
